---- MODULE Spec2Model ----
(***************************************************************************)
(* Payment ingestion and processing core of abjerry97/go_payment:          *)
(* the HTTP handler handlePayment, the Redis queue / dedup cache, the      *)
(* PostgreSQL account store and the pool of worker goroutines.             *)
(*                                                                         *)
(* Every call to Redis or PostgreSQL is one atomic step; the steps of      *)
(* different goroutines interleave freely.  Amounts are whole currency     *)
(* units; account values are scaled down (AssetValue).                     *)
(***************************************************************************)
EXTENDS Integers, Sequences, FiniteSets, TLC

(***************************************************************************)
(* Bounds of the model.                                                    *)
(***************************************************************************)
\* payloads the clients get enqueued in a run of Spec / SpecAmounts
MaxSubmits == 2
\* payloads the clients get enqueued in a run of SpecNoFault / SpecCrash
MaxSubmitsNF == 4
\* crashes of a worker's process in a run
MaxCrashes == 1
\* asset_value (and initial outstanding_balance) of a seeded account
AssetValue == 2

(***************************************************************************)
(* Program constants.                                                      *)
(***************************************************************************)
maxRetries == 3

Workers == {"w1", "w2"}

StatusComplete == "COMPLETE"
StatusPending == "PENDING"
StatusFailed == "FAILED"

Nil == "nil"

Max(a, b) == IF a >= b THEN a ELSE b

(***************************************************************************)
(* Strings the code scans or formats are sequences of characters.          *)
(***************************************************************************)
DigitVal ==
    [c \in {"0", "1", "2", "3", "4", "5", "6", "7", "8", "9"} |->
        CASE c = "0" -> 0 [] c = "1" -> 1 [] c = "2" -> 2 [] c = "3" -> 3
          [] c = "4" -> 4 [] c = "5" -> 5 [] c = "6" -> 6 [] c = "7" -> 7
          [] c = "8" -> 8 [] c = "9" -> 9]

DigitChar == <<"0", "1", "2", "3", "4", "5", "6", "7", "8", "9">>

\* the digits of s from position i on: [pos: first position not consumed, val]
RECURSIVE ScanDigits(_, _, _)
ScanDigits(s, i, acc) ==
    IF i <= Len(s) /\ s[i] \in DOMAIN DigitVal
    THEN ScanDigits(s, i + 1, acc * 10 + DigitVal[s[i]])
    ELSE [pos |-> i, val |-> acc]

\* fmt.Sscanf(s, "%f", &v): an optional sign, then digits; the scan stops at
\* the first character that is no part of the number and fails only when no
\* digit was read.  The fractions of this model are all ".00" and add nothing.
Sscanf(s) ==
    LET signed == Len(s) >= 1 /\ s[1] \in {"+", "-"}
        start  == IF signed THEN 2 ELSE 1
        int    == ScanDigits(s, start, 0)
        sign   == IF signed /\ s[1] = "-" THEN -1 ELSE 1
    IN  [ok |-> int.pos > start, val |-> sign * int.val]

RECURSIVE Digits(_)
Digits(n) ==
    IF n < 10 THEN <<DigitChar[n + 1]>>
    ELSE Digits(n \div 10) \o <<DigitChar[(n % 10) + 1]>>

\* fmt.Sprintf("%.2f", balance)
Sprintf(balance) ==
    (IF balance < 0 THEN <<"-">> \o Digits(-balance) ELSE Digits(balance))
        \o <<".", "0", "0">>

(***************************************************************************)
(* api.PaymentPayload and its JSON encoding in the queue.                  *)
(***************************************************************************)
PaymentPayload(cid, status, amount, date, ref) ==
    [CustomerID |-> cid, PaymentStatus |-> status, TransactionAmount |-> amount,
     TransactionDate |-> date, TransactionReference |-> ref]

\* json.Marshal(payment): the fields in declaration order
Marshal(payment) ==
    <<payment.CustomerID, payment.PaymentStatus, payment.TransactionAmount,
      payment.TransactionDate, payment.TransactionReference>>

\* json.Unmarshal(data, &payment)
Unmarshal(data) ==
    PaymentPayload(data[1], data[2], data[3], data[4], data[5])

\* the binding as it would be if it refused an amount of zero
ShouldBindJSON_RejectZero(payment) ==
    /\ payment.CustomerID[1] = "GIG"
    /\ payment.PaymentStatus # ""
    /\ payment.TransactionAmount # <<>>
    /\ Sscanf(payment.TransactionAmount).val # 0
    /\ payment.TransactionDate # ""
    /\ payment.TransactionReference # ""

\* binding:"required,startswith=GIG" and binding:"required" of the payload
ShouldBindJSON(payment) ==
    /\ payment.CustomerID[1] = "GIG"
    /\ payment.PaymentStatus # ""
    /\ payment.TransactionAmount # <<>>
    /\ payment.TransactionDate # ""
    /\ payment.TransactionReference # ""

GIG1 == <<"GIG", 1>>
GIG2 == <<"GIG", 2>>
GIG9 == <<"GIG", 9>>

\* the customers seeded into customer_accounts
SeededCustomers == {GIG1, GIG2}

\* payloads clients submit under SpecNoFault / SpecCrash: well-formed COMPLETE
\* payments of one unit each to the seeded customer
ValidPayloads ==
    {PaymentPayload(GIG1, StatusComplete, <<"1">>, "d1", r) :
        r \in {"R1", "R2", "R3", "R4"}}

\* payloads clients submit under Spec: two payments (the second larger than
\* the asset value), an unknown customer, payments that are not COMPLETE
\* and a customer_id without the GIG prefix
AllPayloads ==
    { PaymentPayload(GIG1, StatusComplete, <<"1">>, "d1", "R1"),
      PaymentPayload(GIG1, StatusComplete, <<"3">>, "d2", "R5"),
      PaymentPayload(GIG9, StatusComplete, <<"1">>, "d1", "R9"),
      PaymentPayload(GIG1, StatusPending, <<"1">>, "d1", "R10"),
      PaymentPayload(GIG1, StatusFailed, <<"1">>, "d1", "R12"),
      PaymentPayload(<<"XYZ", 1>>, StatusComplete, <<"1">>, "d1", "R11") }

\* payloads clients submit under SpecAmounts: the amounts a client may send
AmountPayloads ==
    { PaymentPayload(GIG1, StatusComplete, <<"1">>, "d1", "R1"),
      PaymentPayload(GIG1, StatusComplete, <<"3">>, "d2", "R5"),
      PaymentPayload(GIG1, StatusComplete, <<"-", "1">>, "d1", "R6"),
      PaymentPayload(GIG1, StatusComplete, <<"0">>, "d1", "R7"),
      PaymentPayload(GIG1, StatusComplete, <<"x">>, "d1", "R8") }

\* payloads clients submit under SpecReplay: one reference sent again with
\* another customer, amount and date, and with an amount that does not scan
ReplayPayloads ==
    { PaymentPayload(GIG1, StatusComplete, <<"1">>, "d1", "R1"),
      PaymentPayload(GIG2, StatusComplete, <<"3">>, "d2", "R1"),
      PaymentPayload(GIG1, StatusComplete, <<"x">>, "d1", "R1") }

Payloads == AllPayloads \cup ValidPayloads \cup AmountPayloads \cup ReplayPayloads

Refs == {p.TransactionReference : p \in Payloads}

NoPayment == PaymentPayload(<<"", 0>>, "", <<>>, "", "")

(***************************************************************************)
(* State.                                                                  *)
(***************************************************************************)
VARIABLES
    accounts,      \* customer_accounts: customer_id -> row
    ledger,        \* processed_transactions: set of rows
    queue,         \* Redis list payment_queue
    txnMarks,      \* Redis keys txn:{reference}
    balances,      \* Redis keys balance:{customer_id} -> rendered balance
    worker,        \* per worker goroutine: position and locals
    resp,          \* the response of handlePayment the client has yet to read
    enqueued,      \* history: payload -> number of times RPush'ed
    applied,       \* history: the Applied updates, in commit order
    crashed,       \* history: what crashed workers were holding
    stopChan,      \* PaymentProcessor.stopChan: "open" or "closed"
    wg,            \* PaymentProcessor.wg: the WaitGroup's counter
    main           \* the process: the signal goroutine's position, the handles

vars == <<accounts, ledger, queue, txnMarks, balances, worker, resp,
          enqueued, applied, crashed, stopChan, wg, main>>


CustomerIDs == {p.CustomerID : p \in Payloads}

RECURSIVE SumOver(_, _)
SumOver(f, S) ==
    IF S = {} THEN 0
    ELSE LET x == CHOOSE y \in S : TRUE IN f[x] + SumOver(f, S \ {x})

\* number of payloads pushed to the queue so far
TotalEnqueued == SumOver(enqueued, Payloads)

(***************************************************************************)
(* Account Store (PostgreSQL).                                             *)
(***************************************************************************)
\* a row of customer_accounts as the DDL defaults and the seed create it
SeededAccount ==
    [asset_value |-> AssetValue, total_paid |-> 0,
     outstanding_balance |-> AssetValue, last_payment_date |-> Nil,
     payment_count |-> 0, version |-> 0]

NoCustomer ==
    [asset_value |-> 0, total_paid |-> 0, outstanding_balance |-> 0,
     last_payment_date |-> Nil, payment_count |-> 0, version |-> 0]

\* GetCustomer as it would be if it found a row for every customer_id
GetCustomer_AlwaysFound(accts, customerID) ==
    [err |-> FALSE, customer |-> SeededAccount]

\* SELECT ... FROM customer_accounts WHERE customer_id = $1
GetCustomer(accts, customerID) ==
    IF customerID \in DOMAIN accts
    THEN [err |-> FALSE, customer |-> accts[customerID]]
    ELSE [err |-> TRUE, customer |-> NoCustomer]

\* update_outstanding_balance as it would be without GREATEST(0, .)
update_outstanding_balance_NoFloor(new) ==
    [new EXCEPT !.outstanding_balance = new.asset_value - new.total_paid]

\* trigger_update_balance: BEFORE UPDATE OF total_paid, on the NEW row
update_outstanding_balance(new) ==
    [new EXCEPT !.outstanding_balance = Max(0, new.asset_value - new.total_paid)]

\* UpdateSetClause as it would be without version = version + 1
UpdateSetClause_NoVersionBump(row, amount, txnDate) ==
    [row EXCEPT
        !.total_paid = row.total_paid + amount,
        !.outstanding_balance = Max(0, row.asset_value - (row.total_paid + amount)),
        !.last_payment_date = txnDate,
        !.payment_count = row.payment_count + 1]

\* UpdateSetClause as it would be without payment_count = payment_count + 1
UpdateSetClause_NoCount(row, amount, txnDate) ==
    [row EXCEPT
        !.total_paid = row.total_paid + amount,
        !.outstanding_balance = Max(0, row.asset_value - (row.total_paid + amount)),
        !.last_payment_date = txnDate,
        !.version = row.version + 1]

\* the SET clause of the UPDATE, evaluated on the old row
UpdateSetClause(row, amount, txnDate) ==
    [row EXCEPT
        !.total_paid = row.total_paid + amount,
        !.outstanding_balance = Max(0, row.asset_value - (row.total_paid + amount)),
        !.last_payment_date = txnDate,
        !.payment_count = row.payment_count + 1,
        !.version = row.version + 1]

\* UpdateCustomerBalance as it would be without AND version = $4
UpdateCustomerBalance_NoVersionCheck(accts, customerID, amount, txnDate, version) ==
    IF customerID \in DOMAIN accts
    THEN [success |-> TRUE,
          accounts |-> [accts EXCEPT ![customerID] =
              [@ EXCEPT !.total_paid = @ + amount,
                        !.outstanding_balance =
                            Max(0, accts[customerID].asset_value
                                     - (accts[customerID].total_paid + amount)),
                        !.last_payment_date = txnDate,
                        !.payment_count = @ + 1,
                        !.version = @ + 1]]]
    ELSE [success |-> FALSE, accounts |-> accts]

\* UPDATE customer_accounts SET ... WHERE customer_id = $1 AND version = $4:
\* one atomic statement; success iff a row matched
UpdateCustomerBalance(accts, customerID, amount, txnDate, version) ==
    IF customerID \in DOMAIN accts /\ accts[customerID].version = version
    THEN [success |-> TRUE,
          accounts |-> [accts EXCEPT ![customerID] =
              update_outstanding_balance(UpdateSetClause(@, amount, txnDate))]]
    ELSE [success |-> FALSE, accounts |-> accts]

\* IsTransactionProcessed as it would be if it never found a row
IsTransactionProcessed_Never(rows, txnRef) == FALSE

\* SELECT EXISTS(SELECT 1 FROM processed_transactions WHERE transaction_reference = $1)
IsTransactionProcessed(rows, txnRef) ==
    \E row \in rows : row.transaction_reference = txnRef

\* INSERT INTO processed_transactions ... ON CONFLICT (transaction_reference) DO NOTHING
MarkTransactionProcessed(rows, txnRef, customerID, amount) ==
    IF \E row \in rows : row.transaction_reference = txnRef
    THEN rows
    ELSE rows \cup {[transaction_reference |-> txnRef,
                     customer_id |-> customerID, amount |-> amount]}

(***************************************************************************)
(* Work Queue and Dedup Cache (Redis).                                     *)
(***************************************************************************)
\* EnqueuePayment as it would be if it pushed the payload twice
EnqueuePayment_Twice(q, payment) == Append(Append(q, Marshal(payment)), Marshal(payment))

\* RPUSH payment_queue <json>
EnqueuePayment(q, payment) == Append(q, Marshal(payment))

\* IsDuplicate as it would be if it never found the key
IsDuplicate_Never(marks, txnRef) == FALSE

\* DequeuePayment as it would be with a pop from the tail of the list
DequeuePayment_RPop(q) ==
    [payment |-> Unmarshal(q[Len(q)]), queue |-> SubSeq(q, 1, Len(q) - 1)]

\* BLPOP payment_queue on a list that is not empty: the head leaves the list
\* and is decoded
DequeuePayment(q) == [payment |-> Unmarshal(Head(q)), queue |-> Tail(q)]

\* EXISTS txn:{ref}
IsDuplicate(marks, txnRef) == txnRef \in marks

\* MarkDuplicate as it would be if it marked every reference
MarkDuplicate_All(marks, txnRef) == marks \cup Refs

\* SETEX txn:{ref} 1
MarkDuplicate(marks, txnRef) == marks \cup {txnRef}

\* GET balance:{id}, scanned with %f; a missing key is (nil, nil)
GetCachedBalance(cache, customerID) ==
    IF cache[customerID] = <<>>
    THEN [present |-> FALSE, balance |-> 0]
    ELSE [present |-> Sscanf(cache[customerID]).ok,
          balance |-> Sscanf(cache[customerID]).val]

\* SETEX balance:{id} "%.2f"
CacheBalance(cache, customerID, balance) ==
    [cache EXCEPT ![customerID] = Sprintf(balance)]

(***************************************************************************)
(* Initial state: the seeded store, an empty Redis, the workers started,   *)
(* no request in flight, no signal received.                               *)
(***************************************************************************)
IdleWorker ==
    [pc |-> "select", payment |-> NoPayment, amount |-> 0, attempt |-> 0,
     customer |-> NoCustomer]

\* a *float64: nil or a value
NoBalance == [present |-> FALSE, balance |-> 0]

Ptr(balance) == [present |-> TRUE, balance |-> balance]

NoResponse ==
    [code |-> 0, status |-> "", ref |-> "", remaining |-> NoBalance, calls |-> <<>>]

\* main after processor.Start: both handles open, the signal goroutine
\* blocked on sigChan
Serving == [pc |-> "sigChan", db |-> "open", redis |-> "open"]

Init ==
    /\ accounts = [c \in SeededCustomers |-> SeededAccount]
    /\ ledger = {}
    /\ queue = <<>>
    /\ txnMarks = {}
    /\ balances = [c \in CustomerIDs |-> <<>>]
    /\ worker = [w \in Workers |-> IdleWorker]
    /\ resp = NoResponse
    /\ enqueued = [p \in Payloads |-> 0]
    /\ applied = <<>>
    /\ crashed = {}
    /\ stopChan = "open"
    /\ wg = Cardinality(Workers)
    /\ main = Serving

(***************************************************************************)
(* APIServer.handlePayment.  The handler writes to the queue only, once,   *)
(* so it is one step; which of its calls fail is an input.                 *)
(***************************************************************************)
\* what a request leaves behind: the response, and for the record the calls
\* to Redis and PostgreSQL it made
Response(code, status, payment, remaining, calls) ==
    [code |-> code, status |-> status, ref |-> payment.TransactionReference,
     remaining |-> remaining, calls |-> calls]

\* which calls of one request fail
NoFaults ==
    [isDuplicate |-> FALSE, getCustomer |-> FALSE, enqueue |-> FALSE,
     getCachedBalance |-> FALSE]

Faults ==
    [isDuplicate : BOOLEAN, getCustomer : BOOLEAN, enqueue : BOOLEAN,
     getCachedBalance : BOOLEAN]

\* the status gate as it would be if it let every status pass
IsComplete_Any(payment) == TRUE

\* payment.PaymentStatus != api.StatusComplete is refused
IsComplete(payment) == payment.PaymentStatus = StatusComplete

\* the response of handlePayment and the queue it leaves
handlePayment(marks, accts, q, cache, payment, fault) ==
    IF ~ShouldBindJSON(payment) \/ ~IsComplete(payment)
    THEN [resp |-> Response(400, "", payment, NoBalance, <<>>), queue |-> q]
    ELSE
    LET isDup == ~fault.isDuplicate /\ IsDuplicate(marks, payment.TransactionReference)
        got   == IF fault.getCustomer THEN [err |-> TRUE, customer |-> NoCustomer]
                 ELSE GetCustomer(accts, payment.CustomerID)
        cachedBalance ==
                 IF fault.getCachedBalance THEN NoBalance
                 ELSE GetCachedBalance(cache, payment.CustomerID)
    IN  IF isDup
        THEN [resp |-> Response(200, "duplicate", payment,
                                IF got.err THEN NoBalance
                                ELSE Ptr(got.customer.outstanding_balance),
                                <<"IsDuplicate", "GetCustomer">>),
              queue |-> q]
        ELSE IF got.err
        THEN [resp |-> Response(404, "", payment, NoBalance,
                                <<"IsDuplicate", "GetCustomer">>),
              queue |-> q]
        ELSE IF fault.enqueue
        THEN [resp |-> Response(500, "", payment, NoBalance,
                                <<"IsDuplicate", "GetCustomer", "EnqueuePayment">>),
              queue |-> q]
        ELSE [resp |-> Response(200, "accepted", payment,
                                IF cachedBalance.present THEN Ptr(cachedBalance.balance)
                                ELSE Ptr(got.customer.outstanding_balance),
                                <<"IsDuplicate", "GetCustomer", "EnqueuePayment",
                                  "GetCachedBalance">>),
              queue |-> EnqueuePayment(q, payment)]

HandlerUnchanged ==
    UNCHANGED <<accounts, ledger, txnMarks, balances, worker, applied, crashed,
                stopChan, wg, main>>

\* POST /api/v1/payments
HandlePayment(payment, fault) ==
    /\ main.pc # "exited"
    /\ resp = NoResponse
    /\ LET out == handlePayment(txnMarks, accounts, queue, balances, payment, fault)
       IN  /\ resp' = out.resp
           /\ queue' = out.queue
           /\ enqueued' = IF out.queue # queue
                          THEN [enqueued EXCEPT ![payment] = @ + 1]
                          ELSE enqueued
    /\ HandlerUnchanged

\* the client has read the response
H_Return ==
    /\ main.pc # "exited"
    /\ resp # NoResponse
    /\ resp' = NoResponse
    /\ UNCHANGED <<queue, enqueued>>
    /\ HandlerUnchanged

(***************************************************************************)
(* PaymentProcessor.worker / processNextPayment / processPayment.          *)
(***************************************************************************)
WorkerUnchanged == UNCHANGED <<resp, enqueued, stopChan, wg, main>>

InProcessPayment(w) ==
    worker[w].pc \in {"isProcessed", "getCustomer", "update",
                      "markProcessed", "markDuplicate", "cacheBalance"}

\* the receive from stopChan as it would be if it never saw the close
Closed_Never(ch) == FALSE

\* case <-p.stopChan: a receive from the channel is ready once it is closed
Closed(ch) == ch = "closed"

\* select: stopChan is open, so the default branch runs processNextPayment
W_Select(w) ==
    /\ worker[w].pc = "select"
    /\ ~Closed(stopChan)
    /\ worker' = [worker EXCEPT ![w].pc = "dequeue"]
    /\ UNCHANGED <<accounts, ledger, queue, txnMarks, balances, applied, crashed>>
    /\ WorkerUnchanged

\* select: stopChan is closed: return, and the deferred wg.Done() runs
W_Exit(w) ==
    /\ worker[w].pc = "select"
    /\ Closed(stopChan)
    /\ worker' = [worker EXCEPT ![w].pc = "exited"]
    /\ wg' = wg - 1
    /\ UNCHANGED <<accounts, ledger, queue, txnMarks, balances, applied, crashed,
                   resp, enqueued, stopChan, main>>

\* BLPOP returns the head of the list
W_Dequeue(w) ==
    /\ worker[w].pc = "dequeue"
    /\ queue # <<>>
    /\ worker' = [worker EXCEPT ![w] =
          [IdleWorker EXCEPT !.pc = "isProcessed",
                             !.payment = DequeuePayment(queue).payment]]
    /\ queue' = DequeuePayment(queue).queue
    /\ UNCHANGED <<accounts, ledger, txnMarks, balances, applied, crashed>>
    /\ WorkerUnchanged

\* BLPOP times out on an empty list: redis.Nil; the worker sleeps 10 ms and
\* is back at the top of its loop
W_DequeueTimeout(w) ==
    /\ worker[w].pc = "dequeue"
    /\ queue = <<>>
    /\ worker' = [worker EXCEPT ![w] = IdleWorker]
    /\ UNCHANGED <<accounts, ledger, queue, txnMarks, balances, applied, crashed>>
    /\ WorkerUnchanged

\* W_DequeueErr as it would be if the error ended the worker
W_DequeueErr_Exit(w) ==
    /\ worker[w].pc = "dequeue"
    /\ worker' = [worker EXCEPT ![w].pc = "exited"]
    /\ UNCHANGED <<accounts, ledger, queue, txnMarks, balances, applied, crashed>>
    /\ WorkerUnchanged

\* BLPOP fails: the error is logged; the worker sleeps 10 ms and is back at
\* the top of its loop
W_DequeueErr(w) ==
    /\ worker[w].pc = "dequeue"
    /\ worker' = [worker EXCEPT ![w] = IdleWorker]
    /\ UNCHANGED <<accounts, ledger, queue, txnMarks, balances, applied, crashed>>
    /\ WorkerUnchanged

\* P1: IsTransactionProcessed is true: the item is dropped, return nil
W_AlreadyProcessed(w) ==
    /\ worker[w].pc = "isProcessed"
    /\ IsTransactionProcessed(ledger, worker[w].payment.TransactionReference)
    /\ worker' = [worker EXCEPT ![w] = IdleWorker]
    /\ UNCHANGED <<accounts, ledger, queue, txnMarks, balances, applied, crashed>>
    /\ WorkerUnchanged

\* P1: IsTransactionProcessed fails: return err
W_IsProcessedErr(w) ==
    /\ worker[w].pc = "isProcessed"
    /\ worker' = [worker EXCEPT ![w] = IdleWorker]
    /\ UNCHANGED <<accounts, ledger, queue, txnMarks, balances, applied, crashed>>
    /\ WorkerUnchanged

\* P1 false, P2: the amount does not scan: "invalid amount"
W_InvalidAmount(w) ==
    /\ worker[w].pc = "isProcessed"
    /\ ~IsTransactionProcessed(ledger, worker[w].payment.TransactionReference)
    /\ ~Sscanf(worker[w].payment.TransactionAmount).ok
    /\ worker' = [worker EXCEPT ![w] = IdleWorker]
    /\ UNCHANGED <<accounts, ledger, queue, txnMarks, balances, applied, crashed>>
    /\ WorkerUnchanged

\* P1 false, P2: the amount scans; the retry loop starts with attempt 0
W_ParseAmount(w) ==
    /\ worker[w].pc = "isProcessed"
    /\ ~IsTransactionProcessed(ledger, worker[w].payment.TransactionReference)
    /\ Sscanf(worker[w].payment.TransactionAmount).ok
    /\ worker' = [worker EXCEPT ![w].pc = "getCustomer",
                                ![w].amount = Sscanf(worker[w].payment.TransactionAmount).val,
                                ![w].attempt = 0]
    /\ UNCHANGED <<accounts, ledger, queue, txnMarks, balances, applied, crashed>>
    /\ WorkerUnchanged

\* P3.1: p.db.GetCustomer reads the row
W_GetCustomer(w) ==
    /\ worker[w].pc = "getCustomer"
    /\ ~GetCustomer(accounts, worker[w].payment.CustomerID).err
    /\ worker' = [worker EXCEPT ![w].pc = "update",
                                ![w].customer =
                                    GetCustomer(accounts, worker[w].payment.CustomerID).customer]
    /\ UNCHANGED <<accounts, ledger, queue, txnMarks, balances, applied, crashed>>
    /\ WorkerUnchanged

\* P3.1: p.db.GetCustomer fails: "failed to get customer"
W_GetCustomerErr(w) ==
    /\ worker[w].pc = "getCustomer"
    /\ worker' = [worker EXCEPT ![w] = IdleWorker]
    /\ UNCHANGED <<accounts, ledger, queue, txnMarks, balances, applied, crashed>>
    /\ WorkerUnchanged

\* AfterConflict as it would be if the loop had no bound
AfterConflict_Unbounded(wk) ==
    [wk EXCEPT !.pc = "getCustomer", !.attempt = wk.attempt + 1]

\* the worker's state after attempt k ended in a version conflict
AfterConflict(wk) ==
    IF wk.attempt + 1 < maxRetries
    THEN [wk EXCEPT !.pc = "getCustomer", !.attempt = wk.attempt + 1]
    ELSE IdleWorker

\* P3.2: p.db.UpdateCustomerBalance with the version read in this attempt:
\* Applied, or a version conflict (retry, or "failed after 3 retries")
W_UpdateCustomerBalance(w) ==
    /\ worker[w].pc = "update"
    /\ LET wk  == worker[w]
           res == UpdateCustomerBalance(accounts, wk.payment.CustomerID, wk.amount,
                                        wk.payment.TransactionDate, wk.customer.version)
       IN  /\ accounts' = res.accounts
           /\ worker' = [worker EXCEPT ![w] =
                 IF res.success THEN [wk EXCEPT !.pc = "markProcessed"]
                 ELSE AfterConflict(wk)]
           /\ applied' =
                 IF res.success
                 THEN Append(applied,
                        [ref |-> wk.payment.TransactionReference,
                         customer_id |-> wk.payment.CustomerID,
                         amount |-> wk.amount, version |-> wk.customer.version])
                 ELSE applied
    /\ UNCHANGED <<ledger, queue, txnMarks, balances, crashed>>
    /\ WorkerUnchanged

\* W_UpdateErr as it would be if the error were taken for a version conflict
W_UpdateErr_Retry(w) ==
    /\ worker[w].pc = "update"
    /\ worker' = [worker EXCEPT ![w] = AfterConflict(worker[w])]
    /\ UNCHANGED <<accounts, ledger, queue, txnMarks, balances, applied, crashed>>
    /\ WorkerUnchanged

\* P3.5: p.db.UpdateCustomerBalance fails: "failed to update balance"
W_UpdateErr(w) ==
    /\ worker[w].pc = "update"
    /\ worker' = [worker EXCEPT ![w] = IdleWorker]
    /\ UNCHANGED <<accounts, ledger, queue, txnMarks, balances, applied, crashed>>
    /\ WorkerUnchanged

\* P3.3: p.db.MarkTransactionProcessed
W_MarkTransactionProcessed(w) ==
    /\ worker[w].pc = "markProcessed"
    /\ ledger' = MarkTransactionProcessed(ledger, worker[w].payment.TransactionReference,
                                          worker[w].payment.CustomerID, worker[w].amount)
    /\ worker' = [worker EXCEPT ![w].pc = "markDuplicate"]
    /\ UNCHANGED <<accounts, queue, txnMarks, balances, applied, crashed>>
    /\ WorkerUnchanged

\* P3.3: p.db.MarkTransactionProcessed fails: a warning is logged
W_MarkTransactionProcessedErr(w) ==
    /\ worker[w].pc = "markProcessed"
    /\ worker' = [worker EXCEPT ![w].pc = "markDuplicate"]
    /\ UNCHANGED <<accounts, ledger, queue, txnMarks, balances, applied, crashed>>
    /\ WorkerUnchanged

\* P3.3: p.redis.MarkDuplicate
W_MarkDuplicate(w) ==
    /\ worker[w].pc = "markDuplicate"
    /\ txnMarks' = MarkDuplicate(txnMarks, worker[w].payment.TransactionReference)
    /\ worker' = [worker EXCEPT ![w].pc = "cacheBalance"]
    /\ UNCHANGED <<accounts, ledger, queue, balances, applied, crashed>>
    /\ WorkerUnchanged

\* P3.3: p.redis.MarkDuplicate fails: a warning is logged
W_MarkDuplicateErr(w) ==
    /\ worker[w].pc = "markDuplicate"
    /\ worker' = [worker EXCEPT ![w].pc = "cacheBalance"]
    /\ UNCHANGED <<accounts, ledger, queue, txnMarks, balances, applied, crashed>>
    /\ WorkerUnchanged

\* newBalance := customer.OutstandingBalance - amount, floored at 0
NewBalance(customer, amount) == Max(0, customer.outstanding_balance - amount)

\* P3.3: p.redis.CacheBalance, then return nil
W_CacheBalance(w) ==
    /\ worker[w].pc = "cacheBalance"
    /\ balances' = CacheBalance(balances, worker[w].payment.CustomerID,
                                NewBalance(worker[w].customer, worker[w].amount))
    /\ worker' = [worker EXCEPT ![w] = IdleWorker]
    /\ UNCHANGED <<accounts, ledger, queue, txnMarks, applied, crashed>>
    /\ WorkerUnchanged

\* P3.3: p.redis.CacheBalance fails: a warning is logged, then return nil
W_CacheBalanceErr(w) ==
    /\ worker[w].pc = "cacheBalance"
    /\ worker' = [worker EXCEPT ![w] = IdleWorker]
    /\ UNCHANGED <<accounts, ledger, queue, txnMarks, balances, applied, crashed>>
    /\ WorkerUnchanged

\* the worker's process dies inside processPayment and is restarted: its
\* locals, the dequeued payload among them, are gone; Redis and PostgreSQL stay
Crash(w) ==
    /\ InProcessPayment(w)
    /\ Cardinality(crashed) < MaxCrashes
    /\ crashed' = crashed \cup
          {[ref |-> worker[w].payment.TransactionReference,
            committed |-> worker[w].pc \in {"markProcessed", "markDuplicate", "cacheBalance"}]}
    /\ worker' = [worker EXCEPT ![w] = IdleWorker]
    /\ UNCHANGED <<accounts, ledger, queue, txnMarks, balances, applied>>
    /\ WorkerUnchanged

(***************************************************************************)
(* main's signal goroutine: processor.Stop(), then os.Exit(0).             *)
(***************************************************************************)
\* wg.Wait() as it would be if it returned at once
Wait_NoWait(counter) == TRUE

\* does wg.Wait() return
Wait(counter) == counter = 0

\* SIGINT / SIGTERM arrives; Stop closes stopChan and goes on to wg.Wait()
Stop_Close ==
    /\ main.pc = "sigChan"
    /\ stopChan' = "closed"
    /\ main' = [main EXCEPT !.pc = "Wait"]
    /\ UNCHANGED <<accounts, ledger, queue, txnMarks, balances, worker, resp,
                   enqueued, applied, crashed, wg>>

\* wg.Wait() returns and with it Stop
Stop_Wait ==
    /\ main.pc = "Wait"
    /\ Wait(wg)
    /\ main' = [main EXCEPT !.pc = "stopped"]
    /\ UNCHANGED <<accounts, ledger, queue, txnMarks, balances, worker, resp,
                   enqueued, applied, crashed, stopChan, wg>>

\* os.Exit(0): the process ends at once; the deferred db.Close() and
\* redisService.Close() of main do not run
Exit ==
    /\ main.pc = "stopped"
    /\ main' = [main EXCEPT !.pc = "exited"]
    /\ UNCHANGED <<accounts, ledger, queue, txnMarks, balances, worker, resp,
                   enqueued, applied, crashed, stopChan, wg>>

(***************************************************************************)
(* Specifications.                                                         *)
(***************************************************************************)
\* the payloads of ValidPayloads differ in their reference only: a client
\* uses a fresh reference only after the ones before it
ValidOrder == <<"R1", "R2", "R3", "R4">>

MaySubmitValid(payment) ==
    \E i \in 1..Len(ValidOrder) :
        /\ payment.TransactionReference = ValidOrder[i]
        /\ \A j \in 1..(i - 1) :
              \E q \in ValidPayloads :
                  q.TransactionReference = ValidOrder[j] /\ enqueued[q] > 0

SubmitValid ==
    /\ TotalEnqueued < MaxSubmitsNF
    /\ \E payment \in ValidPayloads :
          MaySubmitValid(payment) /\ HandlePayment(payment, NoFaults)

Submit ==
    /\ TotalEnqueued < MaxSubmits
    /\ \E payment \in AllPayloads : HandlePayment(payment, NoFaults)

SubmitAmount ==
    /\ TotalEnqueued < MaxSubmits
    /\ \E payment \in AmountPayloads : HandlePayment(payment, NoFaults)

SubmitFault ==
    /\ TotalEnqueued < MaxSubmits
    /\ \E payment \in AllPayloads, fault \in Faults \ {NoFaults} :
          HandlePayment(payment, fault)

WorkerStep(w) ==
    \/ W_Select(w)
    \/ W_Dequeue(w)
    \/ W_DequeueTimeout(w)
    \/ W_AlreadyProcessed(w)
    \/ W_ParseAmount(w)
    \/ W_GetCustomer(w)
    \/ W_UpdateCustomerBalance(w)
    \/ W_MarkTransactionProcessed(w)
    \/ W_MarkDuplicate(w)
    \/ W_CacheBalance(w)

WorkerFault(w) ==
    \/ W_DequeueErr(w)
    \/ W_IsProcessedErr(w)
    \/ W_GetCustomerErr(w)
    \/ W_UpdateErr(w)
    \/ W_MarkTransactionProcessedErr(w)
    \/ W_MarkDuplicateErr(w)
    \/ W_CacheBalanceErr(w)

\* no call fails, no worker crashes, every payload is well-formed
NextNoFault ==
    \/ SubmitValid
    \/ H_Return
    \/ \E w \in Workers : WorkerStep(w)

SpecNoFault == Init /\ [][NextNoFault]_vars

\* no call fails, but a worker's process may die and restart
NextCrash ==
    \/ SubmitValid
    \/ H_Return
    \/ \E w \in Workers : WorkerStep(w)
    \/ \E w \in Workers : Crash(w)

SpecCrash == Init /\ [][NextCrash]_vars

\* as SpecCrash, with a pool of one worker: no two processPayment calls overlap
NextCrashSingle ==
    \/ SubmitValid
    \/ H_Return
    \/ WorkerStep("w1")
    \/ Crash("w1")

SpecCrashSingle == Init /\ [][NextCrashSingle]_vars

\* no call fails, no worker crashes; the clients send every kind of amount
NextAmounts ==
    \/ SubmitAmount
    \/ H_Return
    \/ \E w \in Workers : WorkerStep(w)
    \/ \E w \in Workers : W_InvalidAmount(w)

SpecAmounts == Init /\ [][NextAmounts]_vars

\* calls fail, workers crash, ingestion rejects
Next ==
    \/ Submit
    \/ SubmitFault
    \/ H_Return
    \/ \E w \in Workers : WorkerStep(w)
    \/ \E w \in Workers : WorkerFault(w)
    \/ \E w \in Workers : Crash(w)

Spec == Init /\ [][Next]_vars

\* the requests in which only calls to the dedup cache fail
CacheFaults ==
    {fault \in Faults : ~fault.getCustomer /\ ~fault.enqueue} \ {NoFaults}

SubmitCacheFault ==
    /\ TotalEnqueued < MaxSubmitsNF
    /\ \E payment \in ValidPayloads, fault \in CacheFaults :
          MaySubmitValid(payment) /\ HandlePayment(payment, fault)

\* a pool of one worker; the calls to the store succeed, any call to the
\* dedup cache may fail
NextCacheFault ==
    \/ SubmitValid
    \/ SubmitCacheFault
    \/ H_Return
    \/ WorkerStep("w1")
    \/ W_MarkDuplicateErr("w1")
    \/ W_CacheBalanceErr("w1")

SpecCacheFault == Init /\ [][NextCacheFault]_vars

SubmitStop ==
    /\ TotalEnqueued < MaxSubmits
    /\ \E payment \in ValidPayloads :
          MaySubmitValid(payment) /\ HandlePayment(payment, NoFaults)

\* the process receives SIGINT / SIGTERM while requests and workers run;
\* calls of the workers may fail
NextStop ==
    \/ SubmitStop
    \/ H_Return
    \/ \E w \in Workers : WorkerStep(w)
    \/ \E w \in Workers : WorkerFault(w)
    \/ \E w \in Workers : W_Exit(w)
    \/ Stop_Close
    \/ Stop_Wait
    \/ Exit

SpecStop == Init /\ [][NextStop]_vars

\* the scheduler runs every goroutine that can run, and every call returns
SpecStopFair ==
    /\ Init /\ [][NextStop]_vars
    /\ \A w \in Workers : WF_vars(WorkerStep(w) \/ WorkerFault(w) \/ W_Exit(w))
    /\ WF_vars(Stop_Wait)

SubmitReplay ==
    /\ TotalEnqueued < MaxSubmits
    /\ \E payment \in ReplayPayloads : HandlePayment(payment, NoFaults)

\* no call fails; the clients send one reference with differing contents
NextReplay ==
    \/ SubmitReplay
    \/ H_Return
    \/ \E w \in Workers : WorkerStep(w)
    \/ \E w \in Workers : W_InvalidAmount(w)

SpecReplay == Init /\ [][NextReplay]_vars

\* the reads and updates of customer_accounts by the workers may fail
NextStoreFault ==
    \/ SubmitValid
    \/ H_Return
    \/ \E w \in Workers : WorkerStep(w)
    \/ \E w \in Workers : W_GetCustomerErr(w)
    \/ \E w \in Workers : W_UpdateErr(w)

SpecStoreFault == Init /\ [][NextStoreFault]_vars

\* payloads clients submit under SpecLoopFair: an amount that scans and one
\* that does not
LoopPayloads ==
    {p \in AmountPayloads : p.TransactionReference \in {"R1", "R8"}}

SubmitLoop ==
    /\ TotalEnqueued < MaxSubmits
    /\ \E payment \in LoopPayloads : HandlePayment(payment, NoFaults)

\* every outcome of a worker's iteration: calls fail, amounts do not scan,
\* updates conflict; the process may receive SIGINT / SIGTERM
NextLoop ==
    \/ SubmitLoop
    \/ H_Return
    \/ \E w \in Workers : WorkerStep(w)
    \/ \E w \in Workers : WorkerFault(w)
    \/ \E w \in Workers : W_InvalidAmount(w)
    \/ \E w \in Workers : W_Exit(w)
    \/ Stop_Close
    \/ Stop_Wait
    \/ Exit

\* the scheduler runs every worker goroutine that can run, and every call
\* returns
SpecLoopFair ==
    /\ Init /\ [][NextLoop]_vars
    /\ \A w \in Workers :
          WF_vars(WorkerStep(w) \/ WorkerFault(w) \/ W_InvalidAmount(w) \/ W_Exit(w))

(***************************************************************************)
(* Properties.                                                             *)
(***************************************************************************)
\* the queue is empty and every worker is at the top of its loop or blocked
\* in BLPOP
Drained == queue = <<>> /\ \A w \in Workers : worker[w].pc \in {"select", "dequeue"}

\* the rows of processed_transactions with reference r
LedgerRows(r) == {row \in ledger : row.transaction_reference = r}

\* how many Applied updates carried reference r
AppliedCount(r) == Cardinality({i \in DOMAIN applied : applied[i].ref = r})

AfterCommit == {"markProcessed", "markDuplicate", "cacheBalance"}

\* every processPayment call that committed an update for r has returned:
\* none is still between its commit and its return, none died there
Returned(r) ==
    /\ \A w \in Workers :
          ~(worker[w].pc \in AfterCommit /\ worker[w].payment.TransactionReference = r)
    /\ \A c \in crashed : ~(c.ref = r /\ c.committed)

\* the sum of the scanned amounts of the payloads of S
RECURSIVE SumAmounts(_)
SumAmounts(S) ==
    IF S = {} THEN 0
    ELSE LET p == CHOOSE q \in S : TRUE
         IN  Sscanf(p.TransactionAmount).val + SumAmounts(S \ {p})

\* C1: however often the same payload is submitted, and however the two
\* workers interleave, once the queue is drained the ledger holds exactly one
\* row for its reference and the amount was applied to total_paid exactly once.
C1_SamePayloadAppliedOnce ==
    Drained =>
        \A p \in ValidPayloads :
            enqueued[p] >= 1 =>
                /\ Cardinality(LedgerRows(p.TransactionReference)) = 1
                /\ AppliedCount(p.TransactionReference) = 1

\* C2: every payment whose balance update committed and whose processPayment
\* call has returned has exactly one row in processed_transactions, also in
\* runs where calls to the store fail.
C2_CommittedHasOneLedgerRow ==
    \A i \in DOMAIN applied :
        Returned(applied[i].ref) => Cardinality(LedgerRows(applied[i].ref)) = 1

\* C3: N payments with pairwise distinct references to one customer, no
\* failing call: once the workers have drained the queue, total_paid grew by
\* the sum of the amounts and payment_count and version by N.
C3_DistinctPaymentsAllApplied ==
    (Drained /\ \A p \in ValidPayloads : enqueued[p] <= 1) =>
        /\ accounts[GIG1].total_paid = SumAmounts({p \in ValidPayloads : enqueued[p] = 1})
        /\ accounts[GIG1].payment_count = TotalEnqueued
        /\ accounts[GIG1].version = TotalEnqueued

\* a worker that lost its last attempt and has not read the customer again
Loser(w) == worker[w].pc = "getCustomer" /\ worker[w].attempt >= 1

\* the Applied updates of customer c made against version v
AppliedAt(c, v) ==
    {i \in DOMAIN applied : applied[i].customer_id = c /\ applied[i].version = v}

\* C4: of the update_balance calls on one customer with one expected version
\* exactly one is Applied: no two Applied updates of a customer observed the
\* same version, the version a loser held was taken by exactly one winner,
\* and the loser's next attempt uses a version read after the winner's commit.
C4_OneWinnerPerVersion ==
    /\ \A i, j \in DOMAIN applied :
          (i # j /\ applied[i].customer_id = applied[j].customer_id)
              => applied[i].version # applied[j].version
    /\ \A w \in Workers :
          Loser(w) =>
              /\ Cardinality(AppliedAt(worker[w].payment.CustomerID,
                                       worker[w].customer.version)) = 1
              /\ worker[w].customer.version < accounts[worker[w].payment.CustomerID].version
    /\ \A w \in Workers :
          (worker[w].pc = "update" /\ worker[w].attempt >= 1) =>
              /\ worker[w].customer.version >= worker[w].attempt
              /\ AppliedAt(worker[w].payment.CustomerID, worker[w].customer.version - 1) # {}

\* C4 witness: two workers hold the same version of the same customer, one
\* has been Applied with it and the other, having lost, has read again
C4_Witness ==
    \E w \in Workers :
        /\ worker[w].pc = "update"
        /\ worker[w].attempt >= 1
        /\ worker[w].customer.version = accounts[GIG1].version
        /\ \E v \in Workers : v # w /\ worker[v].pc \in AfterCommit

\* C5: outstanding_balance = max(0, asset_value - total_paid) for every
\* account, in every reachable state.
C5_OutstandingIsDerived ==
    \A c \in DOMAIN accounts :
        accounts[c].outstanding_balance =
            Max(0, accounts[c].asset_value - accounts[c].total_paid)

\* C5 witness: updates have committed, one of them past the asset value
C5_Witness ==
    /\ Len(applied) >= 2
    /\ accounts[GIG1].total_paid > accounts[GIG1].asset_value
    /\ accounts[GIG1].outstanding_balance = 0

\* C6: total_paid of an account never decreases and is never negative.
C6_TotalPaidMonotone ==
    [][\A c \in DOMAIN accounts :
          /\ accounts'[c].total_paid >= accounts[c].total_paid
          /\ accounts'[c].total_paid >= 0]_vars

\* C7: 0 <= outstanding_balance <= asset_value for every account.
C7_OutstandingInRange ==
    \A c \in DOMAIN accounts :
        /\ 0 <= accounts[c].outstanding_balance
        /\ accounts[c].outstanding_balance <= accounts[c].asset_value

\* the step is an Applied update of customer c
AppliedStep(c) ==
    \E w \in Workers :
        /\ worker[w].pc = "update"
        /\ worker'[w].pc = "markProcessed"
        /\ worker[w].payment.CustomerID = c

\* C8: an Applied update_balance sets version to the previous version plus
\* one, and no other step (a failed update, the ledger insert, a cache write,
\* ingestion, a crash) changes version.
C8_VersionStepsByOne ==
    [][\A c \in DOMAIN accounts :
          IF AppliedStep(c)
          THEN accounts'[c].version = accounts[c].version + 1
          ELSE accounts'[c].version = accounts[c].version]_vars

\* C8 witness: two updates were Applied, ledger and cache were written
C8_Witness ==
    /\ accounts[GIG1].version = 2
    /\ ledger # {}
    /\ txnMarks # {}
    /\ balances[GIG1] # <<>>

\* C9: a worker crashed inside processPayment; after the restart and the
\* drain no payment has been applied more than once.
C9_NoDoubleApplyAfterCrash ==
    (crashed # {} /\ Drained) => \A r \in Refs : AppliedCount(r) <= 1

\* C10: a payload whose worker crashed between the dequeue and the commit is
\* not lost: once the workers are idle on an empty queue it has been applied.
C10_CrashedPayloadApplied ==
    Drained =>
        \A c \in crashed : ~c.committed => AppliedCount(c.ref) >= 1

\* the payloads of ValidPayloads submitted so far: with the store answering
\* and the customer known, a submit is refused as duplicate only after an
\* earlier one of the same reference was enqueued
Submitted == {p \in ValidPayloads : enqueued[p] > 0}

\* the row of GIG1 after each submitted payment was applied exactly once
ExpectedAccount ==
    LET n == SumAmounts(Submitted)
    IN  [asset_value |-> AssetValue, total_paid |-> n,
         outstanding_balance |-> Max(0, AssetValue - n),
         last_payment_date |-> IF Submitted = {} THEN Nil ELSE "d1",
         payment_count |-> Cardinality(Submitted),
         version |-> Cardinality(Submitted)]

\* one ledger row for each submitted payment
ExpectedLedger ==
    {[transaction_reference |-> p.TransactionReference,
      customer_id |-> p.CustomerID,
      amount |-> Sscanf(p.TransactionAmount).val] : p \in Submitted}

\* C11: whichever calls to the dedup cache fail (is_duplicate or
\* get_cached_balance at ingestion, mark_duplicate or cache_balance in the
\* worker), the drained system holds the account row and the ledger rows that
\* the submissions determine: the same as in the run without the failure; no
\* payment is lost, none is applied twice.
C11_CacheFailureKeepsPersistedState ==
    Drained =>
        /\ accounts[GIG1] = ExpectedAccount
        /\ ledger = ExpectedLedger
        /\ \A r \in Refs : AppliedCount(r) <= 1

\* C11 witness: R1 was applied, mark_duplicate and cache_balance failed for
\* it, it was enqueued a second time and the queue is drained
C11_Witness ==
    /\ Drained
    /\ AppliedCount("R1") = 1
    /\ \E p \in ValidPayloads : p.TransactionReference = "R1" /\ enqueued[p] = 2
    /\ "R1" \notin txnMarks
    /\ balances[GIG1] = <<>>
    /\ TotalEnqueued = MaxSubmitsNF

\* the step is a request to handlePayment running to its response
SubmitStep == resp = NoResponse /\ resp' # NoResponse

\* C12: once a worker has applied a payment with reference R and the dedup
\* mark of R is in the cache, a further submit of R is answered 200
\* "duplicate", enqueues nothing and leaves the ledger and the account rows
\* (total_paid, payment_count, version) as they are.
C12_DuplicateAfterCommit ==
    [][(SubmitStep /\ resp'.ref \in txnMarks /\ AppliedCount(resp'.ref) >= 1) =>
          /\ resp'.code = 200
          /\ resp'.status = "duplicate"
          /\ queue' = queue
          /\ enqueued' = enqueued
          /\ ledger' = ledger
          /\ accounts' = accounts]_vars

\* C12 witness: R1 is in the ledger and marked, and a further submit of it
\* was answered "duplicate" with the balance of the store
C12_Witness ==
    /\ resp.status = "duplicate"
    /\ resp.ref = "R1"
    /\ "R1" \in txnMarks
    /\ LedgerRows("R1") # {}
    /\ resp.remaining = Ptr(accounts[GIG1].outstanding_balance)
    /\ accounts[GIG1].total_paid = 1

\* the payload a client sent with reference r, where a reference stands for
\* one payload
PayloadOf(r) ==
    CHOOSE p \in AllPayloads \cup ValidPayloads \cup AmountPayloads :
        p.TransactionReference = r

\* C13: a submit whose payment_status is not COMPLETE is answered 400 and has
\* no effect: it makes no call to the cache or the store, and the queue, the
\* ledger, the accounts and the cache are as before.
C13_NotCompleteRejected ==
    [][(SubmitStep /\ PayloadOf(resp'.ref).PaymentStatus # StatusComplete) =>
          /\ resp'.code = 400
          /\ resp'.calls = <<>>
          /\ UNCHANGED <<queue, ledger, accounts, txnMarks, balances, enqueued>>]_vars

\* C13 witness: a PENDING payment was refused while the system was at work
C13_Witness ==
    /\ resp.code = 400
    /\ resp.ref = "R10"
    /\ PayloadOf(resp.ref).PaymentStatus = StatusPending
    /\ ledger # {}
    /\ balances[GIG1] # <<>>

\* the request that left response r made the call named name
Called(r, name) == \E i \in DOMAIN r.calls : r.calls[i] = name

\* C14: a submit of a COMPLETE payload whose reference is not marked
\* duplicate and whose customer_id has no row in customer_accounts is answered
\* 404 and enqueues nothing; queue, ledger and accounts are as before.
C14_UnknownCustomerNotFound ==
    [][(/\ SubmitStep
        /\ ShouldBindJSON(PayloadOf(resp'.ref))
        /\ PayloadOf(resp'.ref).PaymentStatus = StatusComplete
        /\ resp'.ref \notin txnMarks
        /\ PayloadOf(resp'.ref).CustomerID \notin DOMAIN accounts) =>
          /\ resp'.code = 404
          /\ ~Called(resp', "EnqueuePayment")
          /\ UNCHANGED <<queue, ledger, accounts, enqueued>>]_vars

\* C14 witness: a payment to a customer without a row was answered 404 after
\* the existence check, while another payment was waiting in the queue
C14_Witness ==
    /\ resp.code = 404
    /\ resp.ref = "R9"
    /\ PayloadOf(resp.ref).CustomerID \notin DOMAIN accounts
    /\ Called(resp, "GetCustomer")
    /\ queue # <<>>

\* C15: the 404 answer is reserved for unknown customers: when the existence
\* check of ingestion fails for a customer that has a row (connection loss,
\* timeout), the answer is 500 and not 404.
C15_TransientStoreErrorIs500 ==
    [][(SubmitStep /\ PayloadOf(resp'.ref).CustomerID \in DOMAIN accounts) =>
          resp'.code # 404]_vars

\* how many times the request that left response r made the call named name
CallCount(r, name) == Cardinality({i \in DOMAIN r.calls : r.calls[i] = name})

\* C16: a submit enqueues at most once, and exactly once if and only if it
\* answers "accepted"; no step of a worker (success, drop, error, retry
\* exhaustion, crash) appends to the queue.  So the payloads ever enqueued are
\* as many as the accepted responses.
C16_OneEnqueuePerAccepted ==
    [][IF SubmitStep
       THEN /\ CallCount(resp', "EnqueuePayment") <= 1
            /\ IF resp'.status = "accepted"
               THEN /\ queue' = Append(queue, Marshal(PayloadOf(resp'.ref)))
                    /\ SumOver(enqueued', Payloads) = TotalEnqueued + 1
               ELSE /\ queue' = queue
                    /\ enqueued' = enqueued
       ELSE /\ enqueued' = enqueued
            /\ \/ queue' = queue
               \/ queue # <<>> /\ queue' = Tail(queue)]_vars

\* C16 witness: two payloads were accepted, the workers took both and neither
\* was applied (failed calls, a crash); nothing came back to the queue
C16_Witness ==
    /\ TotalEnqueued = MaxSubmits
    /\ Drained
    /\ applied = <<>>
    /\ crashed # {}

\* the step is a successful dequeue by worker w
DequeueStep(w) == worker[w].pc = "dequeue" /\ worker'[w].pc = "isProcessed"

\* C17: the queue is FIFO: an enqueue adds the payload behind all that are
\* waiting, a successful dequeue hands the worker the current head and removes
\* exactly it, and no other step touches the list; so of two payloads the one
\* enqueued first is dequeued first.
C17_QueueIsFIFO ==
    [][/\ \A w \in Workers :
             DequeueStep(w) =>
                 /\ queue # <<>>
                 /\ Marshal(worker'[w].payment) = Head(queue)
                 /\ queue' = Tail(queue)
       /\ (SubmitStep /\ resp'.status = "accepted") =>
             /\ Len(queue') = Len(queue) + 1
             /\ SubSeq(queue', 1, Len(queue)) = queue
             /\ queue'[Len(queue')] = Marshal(PayloadOf(resp'.ref))
       /\ queue' # queue =>
             \/ SubmitStep /\ resp'.status = "accepted"
             \/ \E w \in Workers : DequeueStep(w)]_vars

\* C17 witness: R1, R2 and R3 were enqueued in this order; a worker has just
\* been handed R1 while R2 and R3 wait in this order
C17_Witness ==
    /\ \E w \in Workers :
          /\ worker[w].pc = "isProcessed"
          /\ worker[w].payment.TransactionReference = "R1"
    /\ Len(queue) = 2
    /\ Unmarshal(queue[1]).TransactionReference = "R2"
    /\ Unmarshal(queue[2]).TransactionReference = "R3"

\* processor.Stop() has returned
StopReturned == main.pc \in {"stopped", "exited"}

\* the step is worker w leaving its loop
ExitStep(w) == worker[w].pc # "exited" /\ worker'[w].pc = "exited"

\* C18: Stop returns only after every worker has left its loop, and a worker
\* leaves only between two iterations, holding no payload: when Stop has
\* returned no processPayment call is in flight and no dequeued payload was
\* given up for the stop signal.
C18_StopWaitsForWorkers ==
    /\ [](StopReturned =>
            \A w \in Workers : worker[w].pc = "exited" /\ ~InProcessPayment(w))
    /\ [][\A w \in Workers : ExitStep(w) => worker[w] = IdleWorker]_vars

\* C18 witness: Stop has returned, every worker has left, a payment was
\* applied and another one is left in the queue for the next start
C18_Witness ==
    /\ StopReturned
    /\ \A w \in Workers : worker[w].pc = "exited"
    /\ Len(applied) >= 1
    /\ queue # <<>>

\* C19: once stopChan is closed every worker leaves its loop and Stop
\* returns; after the close a worker starts no further iteration, so what is
\* left to it is the dequeue it is blocked in and one processPayment of at
\* most maxRetries attempts.
C19_StopEventuallyReturns ==
    /\ (stopChan = "closed") ~>
           (StopReturned /\ \A w \in Workers : worker[w].pc = "exited")
    /\ [][\A w \in Workers :
             (stopChan = "closed" /\ worker[w].pc = "select") =>
                 worker'[w].pc \in {"select", "exited"}]_vars
    /\ [](\A w \in Workers : worker[w].attempt < maxRetries)

\* C19 witness: stopChan is closed, one worker has left and the other is in
\* the retry loop of the processPayment call it had begun
C19_Witness ==
    /\ stopChan = "closed"
    /\ \E w, v \in Workers :
          /\ worker[w].pc = "exited"
          /\ worker[v].pc = "update"
          /\ worker[v].attempt >= 1

\* C20: on a graceful shutdown the workers have left, and the handle of the
\* Account Store and the handle of the Dedup Cache are closed, before the
\* process exits with code 0.
C20_HandlesClosedBeforeExit ==
    main.pc = "exited" =>
        /\ \A w \in Workers : worker[w].pc = "exited"
        /\ main.db = "closed"
        /\ main.redis = "closed"

\* the amount of the payload a client sent with reference r scans as zero
ZeroAmount(r) ==
    /\ Sscanf(PayloadOf(r).TransactionAmount).ok
    /\ Sscanf(PayloadOf(r).TransactionAmount).val = 0

\* C21: a payment of amount zero is admitted by ingestion and applied like
\* any other: its committed update adds 1 to payment_count and to version,
\* leaves total_paid and outstanding_balance as they are, and the call leaves
\* a ledger row for it.
C21_ZeroAmountApplied ==
    /\ [][/\ (SubmitStep /\ ZeroAmount(resp'.ref) /\ resp'.ref \notin txnMarks) =>
               /\ resp'.status = "accepted"
               /\ queue' = Append(queue, Marshal(PayloadOf(resp'.ref)))
          /\ \A w \in Workers :
               (/\ worker[w].pc = "update"
                /\ worker'[w].pc = "markProcessed"
                /\ ZeroAmount(worker[w].payment.TransactionReference)) =>
                   LET old == accounts[worker[w].payment.CustomerID]
                       new == accounts'[worker[w].payment.CustomerID]
                   IN  /\ new.payment_count = old.payment_count + 1
                       /\ new.version = old.version + 1
                       /\ new.total_paid = old.total_paid
                       /\ new.outstanding_balance = old.outstanding_balance]_vars
    /\ [](\A r \in Refs :
             (ZeroAmount(r) /\ AppliedCount(r) >= 1 /\ Returned(r)) =>
                 \E row \in LedgerRows(r) : row.amount = 0)

\* C21 witness: a payment of one unit and a payment of zero were both
\* applied; the zero payment has its ledger row
C21_Witness ==
    /\ AppliedCount("R7") = 1
    /\ ZeroAmount("R7")
    /\ LedgerRows("R7") # {}
    /\ accounts[GIG1].payment_count = 2
    /\ accounts[GIG1].version = 2
    /\ accounts[GIG1].total_paid = 1

\* C22: when a worker finds at P1 that the reference of its payload has a
\* ledger row, processPayment returns without any mutation: the accounts, the
\* ledger, the dedup marks, the cached balances and the queue are as before,
\* whatever customer_id and amount the payload carries.
C22_ReplayDropped ==
    [][\A w \in Workers :
          (/\ worker[w].pc = "isProcessed"
           /\ LedgerRows(worker[w].payment.TransactionReference) # {}
           /\ worker'[w] # worker[w]) =>
              /\ worker'[w] = IdleWorker
              /\ UNCHANGED <<accounts, ledger, txnMarks, balances, queue>>]_vars

\* C22 witness: R1 was applied to GIG1 and has its ledger row; a worker holds
\* a payload with reference R1 for another customer and amount, at P1
C22_Witness ==
    /\ \E row \in LedgerRows("R1") : row.customer_id = GIG1 /\ row.amount = 1
    /\ \E w \in Workers :
          /\ worker[w].pc = "isProcessed"
          /\ worker[w].payment.TransactionReference = "R1"
          /\ worker[w].payment.CustomerID = GIG2
          /\ worker[w].payment.TransactionAmount = <<"3">>

\* worker w is about to update with a version that is no longer the row's
VersionMismatch(w) ==
    /\ worker[w].pc = "update"
    /\ accounts[worker[w].payment.CustomerID].version # worker[w].customer.version

\* C23: a payload gets at most maxRetries = 3 update attempts; when the third
\* ends in a version mismatch processPayment returns its error, the payload
\* is not put back on the queue, and no step of that call, from the dequeue
\* on, has changed the accounts, the ledger or the cache.
C23_RetryExhaustedChangesNothing ==
    /\ [](\A w \in Workers : worker[w].attempt < maxRetries)
    /\ [][\A w \in Workers :
             /\ (VersionMismatch(w) /\ worker'[w] # worker[w]) =>
                   /\ IF worker[w].attempt = maxRetries - 1
                      THEN worker'[w] = IdleWorker
                      ELSE /\ worker'[w].pc = "getCustomer"
                           /\ worker'[w].attempt = worker[w].attempt + 1
                   /\ queue' = queue
             /\ (/\ worker[w].pc \in {"dequeue", "isProcessed", "getCustomer", "update"}
                 /\ worker'[w] # worker[w]
                 /\ worker'[w].pc # "markProcessed") =>
                   UNCHANGED <<accounts, ledger, txnMarks, balances>>]_vars

\* C23 witness: four payments with distinct references were accepted, the
\* queue is drained and only three were applied: one ran out of attempts
C23_Witness ==
    /\ Drained
    /\ TotalEnqueued = 4
    /\ \A p \in ValidPayloads : enqueued[p] = 1
    /\ Len(applied) = 3
    /\ Cardinality(ledger) = 3
    /\ accounts[GIG1].version = 3

C25_CachedBalanceIsCommitted ==
    [][\A w \in Workers :
          (worker[w].pc = "update" /\ worker'[w].pc = "markProcessed") =>
              NewBalance(worker[w].customer, worker[w].amount)
                  = accounts'[worker[w].payment.CustomerID].outstanding_balance]_vars

\* C26: a dedup mark txn:R is in the cache only if a balance update for a
\* payload with reference R has committed; so ingestion never answers
\* "duplicate", skipping the enqueue, for a reference that was not applied.
C26_MarkOnlyAfterCommit ==
    /\ \A r \in txnMarks : AppliedCount(r) >= 1
    /\ resp.status = "duplicate" => AppliedCount(resp.ref) >= 1

\* C26 witness: the one payment accepted was applied and marked, and a
\* further submit of its reference was answered "duplicate"
C26_Witness ==
    /\ resp.status = "duplicate"
    /\ resp.ref \in txnMarks
    /\ Len(applied) = 1
    /\ applied[1].ref = resp.ref
    /\ TotalEnqueued = 1

\* C27: once the queue is empty and the workers are idle, with no cache
\* error and no expiry, the cached balance of a customer, when present, is the
\* outstanding_balance of the store, however two workers that committed
\* payments with distinct references to that customer interleaved.
C27_CacheEqualsStoreAfterDrain ==
    (Drained /\ \A p \in ValidPayloads : enqueued[p] <= 1) =>
        \A c \in DOMAIN accounts :
            GetCachedBalance(balances, c).present =>
                GetCachedBalance(balances, c).balance = accounts[c].outstanding_balance

\* C28: for every account created with the defaults of the schema (version 0,
\* payment_count 0) version equals payment_count in every reachable state.
C28_VersionIsPaymentCount ==
    \A c \in DOMAIN accounts : accounts[c].version = accounts[c].payment_count

\* C28 witness: two updates of GIG1 were applied and the workers are idle;
\* GIG2 is as it was seeded
C28_Witness ==
    /\ Drained
    /\ Len(applied) = 2
    /\ accounts[GIG1].payment_count = 2
    /\ accounts[GIG2] = SeededAccount

====
